---- MODULE Spec2Model ----
(***************************************************************************)
(* Emergency-symptom triage workflow of the dog-health application.        *)
(*                                                                         *)
(* The EmergencyAssessment dialog (src/unnamed/part_001) is modelled as a  *)
(* state machine over its React state.  Every handler and every state      *)
(* setter the component declares is an operation of the session; one       *)
(* action models the whole handler.  An asynchronous handler is split at   *)
(* its await: the call (performAIAssessment) and the continuation that     *)
(* runs when the request settles (emergencyAssessmentSettled).             *)
(*                                                                         *)
(* Variables written `h...` are history variables: they record what has    *)
(* happened and are never read by an operation.                            *)
(***************************************************************************)
EXTENDS Integers, Sequences, FiniteSets, TLC

----------------------------------------------------------------------------
(* Bounds *)

\* longest symptom list the model lets a session build
MaxSymptoms == 3

\* largest number of emergency-assessment requests in flight at once
MaxInFlight == 2

----------------------------------------------------------------------------
(* JavaScript values *)

\* null and undefined of an object-typed slot
JNull == [tag |-> "null"]
JUndefined == [tag |-> "undefined"]

\* null of assessment.urgency
NoUrgency == "null"

\* obj.key of a parsed JSON value: undefined when the key is absent
GetField(obj, key) == IF key \in DOMAIN obj THEN obj[key] ELSE JUndefined

----------------------------------------------------------------------------
(* Taxonomy tables *)

emergencySymptoms ==
  << "Difficulty breathing or gasping", "Seizures or convulsions",
     "Loss of consciousness or collapse", "Severe bleeding",
     "Suspected poisoning", "Severe vomiting or diarrhea",
     "Unable to urinate or defecate", "Signs of severe pain",
     "Pale or blue gums", "Severe lethargy or unresponsiveness" >>

urgentSymptoms ==
  << "Persistent vomiting", "Loss of appetite for 24+ hours",
     "Unusual lethargy", "Limping or difficulty moving",
     "Excessive thirst or urination", "Coughing or breathing changes",
     "Skin irritation or rash", "Behavioral changes",
     "Eye discharge or redness", "Minor wounds or cuts" >>

routineSymptoms ==
  << "Minor scratching", "Slight change in appetite",
     "Mild lethargy after exercise", "Minor behavioral quirks",
     "Regular grooming needs", "Routine check-up items",
     "Preventive care questions", "Diet or exercise concerns",
     "Training or behavior tips", "General wellness questions" >>

Range(s) == {s[i] : i \in 1..Len(s)}

Urgencies == {"emergency", "urgent", "routine"}

\* the symptom buttons of the picker: each phrase with the bucket its button passes
SymptomButtons ==
  {<<s, "emergency">> : s \in Range(emergencySymptoms)}
    \cup {<<s, "urgent">> : s \in Range(urgentSymptoms)}
    \cup {<<s, "routine">> : s \in Range(routineSymptoms)}

\* the phrases the model clicks: one of each bucket
ClickedPhrases == {"Seizures or convulsions", "Persistent vomiting", "Minor scratching"}

ButtonInputs == {b \in SymptomButtons : b[1] \in ClickedPhrases}

----------------------------------------------------------------------------
(* State *)

VARIABLES
  isOpen,            \* dialog open
  currentStep,       \* 0 intro, 1 picker, 2 local result, 3 AI result
  selectedDogId,     \* "" when none
  selectedSymptoms,  \* the list sent to the AI
  duration, severity, currentBehavior,
  vitalSigns,        \* record of the four vital-sign fields
  aiAssessment,      \* JNull, or what setAiAssessment stored
  isAnalyzing,
  assessment,        \* [symptoms, urgency] of the local classifier
  toastTitle,        \* title of the last toast shown, "" when none yet
  pending,           \* emergency-assessment requests in flight
  hBuckets,          \* history: buckets passed to handleSymptomCheck since the last reset
  hLast              \* history: the last operation and the step it was invoked at

sessionVars == <<isOpen, currentStep, selectedDogId, selectedSymptoms, duration,
                 severity, currentBehavior, vitalSigns, aiAssessment,
                 isAnalyzing, assessment, toastTitle, pending, hBuckets, hLast>>

\* State of the HealthEntryForm dialog (Header.tsx)
VARIABLES
  formOpen,             \* isOpen of the form dialog
  formValues,           \* form.getValues(): type, title, description, severity
  selectedFiles,        \* photos chosen for upload
  aiAnalysis,           \* JNull, or what setAiAnalysis stored
  photoAnalyses,        \* list stored by setPhotoAnalyses
  isAnalyzingSymptoms,
  isAnalyzingPhotos,
  symptomCalls,         \* analyze-symptoms requests in flight
  photoRuns,            \* analyzePhotos runs suspended at a fetch
  formToast,            \* title of the last toast of the form, "" when none yet
  hFormLast             \* history: the last operation of the form

formVars == <<formOpen, formValues, selectedFiles, aiAnalysis, photoAnalyses,
              isAnalyzingSymptoms, isAnalyzingPhotos, symptomCalls, photoRuns,
              formToast, hFormLast>>

\* State of the server: the clock and the storage tables (routes.ts, part_004)
VARIABLES
  now,             \* the date of Date.now()
  dogs,            \* table dogs: id -> row
  healthRecords,   \* table health_records: rows in insertion order
  srvRequest,      \* history: the last request handled and what the generative model did for it
  srvResponse,     \* the answer to it: status and JSON body
  srvCalls         \* history: the calls it made to storage and to the generative model

serverVars == <<now, dogs, healthRecords, srvRequest, srvResponse, srvCalls>>

\* State of the subscription route: table users, the Stripe account, and
\* the requests being handled (routes.ts, part_004)
VARIABLES
  users,                \* table users: id -> the Stripe columns of the row
  stripeCustomers,      \* the customers Stripe holds, in creation order
  stripeSubscriptions,  \* the subscriptions Stripe holds, in creation order
  subscriptionCalls     \* the calls to POST /api/get-or-create-subscription: where each is, what it holds

billingVars == <<users, stripeCustomers, stripeSubscriptions, subscriptionCalls>>

vars == <<sessionVars, formVars, serverVars, billingVars>>

EmptyVitalSigns == [breathing |-> "", heartRate |-> "", temperature |-> "", gumColor |-> ""]

Op(name) == [op |-> name, from |-> currentStep]

\* every request in flight was issued by the session that is now discarded
MarkStale(reqs) == [i \in 1..Len(reqs) |-> [reqs[i] EXCEPT !.stale = TRUE]]

SessionInit ==
  /\ isOpen = FALSE
  /\ currentStep = 0
  /\ selectedDogId = ""
  /\ selectedSymptoms = <<>>
  /\ duration = ""
  /\ severity = ""
  /\ currentBehavior = ""
  /\ vitalSigns = EmptyVitalSigns
  /\ aiAssessment = JNull
  /\ isAnalyzing = FALSE
  /\ assessment = [symptoms |-> <<>>, urgency |-> NoUrgency]
  /\ toastTitle = ""
  /\ pending = <<>>
  /\ hBuckets = {}
  /\ hLast = [op |-> "init", from |-> 0]

----------------------------------------------------------------------------
(* Session operations *)

\* mutant: reopening keeps the local assessment
startAssessmentKeepsAssessment ==
  /\ isOpen' = TRUE
  /\ currentStep' = 0
  /\ pending' = MarkStale(pending)
  /\ hLast' = Op("startAssessment")
  /\ UNCHANGED <<selectedDogId, selectedSymptoms, duration, severity, assessment, hBuckets,
                 currentBehavior, vitalSigns, aiAssessment, isAnalyzing, toastTitle>>
  /\ UNCHANGED <<formVars, serverVars, billingVars>>

startAssessment ==
  /\ isOpen' = TRUE
  /\ currentStep' = 0
  /\ assessment' = [symptoms |-> <<>>, urgency |-> NoUrgency]
  /\ pending' = MarkStale(pending)
  /\ hBuckets' = {}
  /\ hLast' = Op("startAssessment")
  /\ UNCHANGED <<selectedDogId, selectedSymptoms, duration, severity,
                 currentBehavior, vitalSigns, aiAssessment, isAnalyzing, toastTitle>>
  /\ UNCHANGED <<formVars, serverVars, billingVars>>

\* Dialog onOpenChange(false), "Cancel Assessment" and "Close"
closeDialog ==
  /\ isOpen
  /\ isOpen' = FALSE
  /\ pending' = MarkStale(pending)
  /\ hLast' = Op("closeDialog")
  /\ UNCHANGED <<currentStep, selectedDogId, selectedSymptoms, duration, severity,
                 currentBehavior, vitalSigns, aiAssessment, isAnalyzing,
                 assessment, toastTitle, hBuckets>>
  /\ UNCHANGED <<formVars, serverVars, billingVars>>

\* mutant: an emergency bucket only counts on the first selection
NextUrgencyNoEscalation(urgency, category) ==
  IF urgency = NoUrgency THEN category
  ELSE IF category = "urgent" /\ urgency = "routine" THEN "urgent"
  ELSE urgency

\* mutant: the bucket of the latest selection wins
NextUrgencyLatestWins(urgency, category) == category

\* mutant: a repeated urgent selection escalates to emergency
NextUrgencyRepeatEscalates(urgency, category) ==
  IF category = "emergency" \/ urgency = NoUrgency THEN category
  ELSE IF category = "urgent" /\ urgency = "routine" THEN "urgent"
  ELSE IF category = "urgent" /\ urgency = "urgent" THEN "emergency"
  ELSE urgency

\* the classification rule of handleSymptomCheck
NextUrgency(urgency, category) ==
  IF category = "emergency" \/ urgency = NoUrgency THEN category
  ELSE IF category = "urgent" /\ urgency = "routine" THEN "urgent"
  ELSE urgency

\* mutant: the selection stays on the picker instead of going to the result
handleSymptomCheckStaysOnPicker(symptom, category) ==
  /\ Len(assessment.symptoms) < MaxSymptoms
  /\ Len(selectedSymptoms) < MaxSymptoms
  /\ assessment' = [symptoms |-> Append(assessment.symptoms, symptom),
                    urgency |-> NextUrgency(assessment.urgency, category)]
  /\ selectedSymptoms' = Append(selectedSymptoms, symptom)
  /\ currentStep' = currentStep
  /\ hBuckets' = hBuckets \cup {category}
  /\ hLast' = Op("handleSymptomCheck")
  /\ UNCHANGED <<isOpen, selectedDogId, duration, severity, currentBehavior,
                 vitalSigns, aiAssessment, isAnalyzing, toastTitle, pending>>
  /\ UNCHANGED <<formVars, serverVars, billingVars>>

handleSymptomCheck(symptom, category) ==
  /\ Len(assessment.symptoms) < MaxSymptoms
  /\ Len(selectedSymptoms) < MaxSymptoms
  /\ assessment' = [symptoms |-> Append(assessment.symptoms, symptom),
                    urgency |-> NextUrgency(assessment.urgency, category)]
  /\ selectedSymptoms' = Append(selectedSymptoms, symptom)
  /\ currentStep' = 2
  /\ hBuckets' = hBuckets \cup {category}
  /\ hLast' = Op("handleSymptomCheck")
  /\ UNCHANGED <<isOpen, selectedDogId, duration, severity, currentBehavior,
                 vitalSigns, aiAssessment, isAnalyzing, toastTitle, pending>>
  /\ UNCHANGED <<formVars, serverVars, billingVars>>

\* "Continue" of the intro view
continueAssessment ==
  /\ isOpen
  /\ currentStep = 0
  /\ currentStep' = 1
  /\ hLast' = Op("continueAssessment")
  /\ UNCHANGED <<isOpen, selectedDogId, selectedSymptoms, duration, severity,
                 currentBehavior, vitalSigns, aiAssessment, isAnalyzing,
                 assessment, toastTitle, pending, hBuckets>>
  /\ UNCHANGED <<formVars, serverVars, billingVars>>

\* "Back" of the picker view
backToIntro ==
  /\ isOpen
  /\ currentStep = 1
  /\ currentStep' = 0
  /\ hLast' = Op("backToIntro")
  /\ UNCHANGED <<isOpen, selectedDogId, selectedSymptoms, duration, severity,
                 currentBehavior, vitalSigns, aiAssessment, isAnalyzing,
                 assessment, toastTitle, pending, hBuckets>>
  /\ UNCHANGED <<formVars, serverVars, billingVars>>

\* mutant: the reset forgets the vital signs
resetAssessmentKeepsVitalSigns ==
  /\ currentStep' = 0
  /\ assessment' = [symptoms |-> <<>>, urgency |-> NoUrgency]
  /\ selectedSymptoms' = <<>>
  /\ selectedDogId' = ""
  /\ duration' = ""
  /\ severity' = ""
  /\ currentBehavior' = ""
  /\ aiAssessment' = JNull
  /\ pending' = MarkStale(pending)
  /\ hBuckets' = {}
  /\ hLast' = Op("resetAssessment")
  /\ UNCHANGED <<isOpen, isAnalyzing, toastTitle, vitalSigns>>
  /\ UNCHANGED <<formVars, serverVars, billingVars>>

resetAssessment ==
  /\ currentStep' = 0
  /\ assessment' = [symptoms |-> <<>>, urgency |-> NoUrgency]
  /\ selectedSymptoms' = <<>>
  /\ selectedDogId' = ""
  /\ duration' = ""
  /\ severity' = ""
  /\ currentBehavior' = ""
  /\ vitalSigns' = EmptyVitalSigns
  /\ aiAssessment' = JNull
  /\ pending' = MarkStale(pending)
  /\ hBuckets' = {}
  /\ hLast' = Op("resetAssessment")
  /\ UNCHANGED <<isOpen, isAnalyzing, toastTitle>>
  /\ UNCHANGED <<formVars, serverVars, billingVars>>

\* prev.filter(s => s !== symptom)
Without(list, symptom) == SelectSeq(list, LAMBDA s : s # symptom)

toggleSymptom(symptom) ==
  /\ selectedSymptoms' =
       IF symptom \in Range(selectedSymptoms)
       THEN Without(selectedSymptoms, symptom)
       ELSE Append(selectedSymptoms, symptom)
  /\ Len(selectedSymptoms') <= MaxSymptoms
  /\ hLast' = Op("toggleSymptom")
  /\ UNCHANGED <<isOpen, currentStep, selectedDogId, duration, severity,
                 currentBehavior, vitalSigns, aiAssessment, isAnalyzing,
                 assessment, toastTitle, pending, hBuckets>>
  /\ UNCHANGED <<formVars, serverVars, billingVars>>

----------------------------------------------------------------------------
(* Result presentation *)

\* mutant: the urgent bucket is given the descriptor of the routine bucket
getRecommendationUrgentAsRoutine(urgency) ==
  CASE urgency = "emergency" ->
         [title |-> "Emergency Care Needed",
          description |-> "Contact your emergency vet or animal hospital immediately. These symptoms require immediate professional attention.",
          action |-> "Call Emergency Vet Now",
          color |-> "text-destructive", bgColor |-> "bg-destructive/10"]
    [] urgency \in {"urgent", "routine"} ->
         [title |-> "Routine Care",
          description |-> "These concerns can typically wait for your next routine appointment. Continue monitoring and note any changes.",
          action |-> "Schedule Routine Visit",
          color |-> "text-accent", bgColor |-> "bg-accent/10"]
    [] OTHER -> JNull

getRecommendation(urgency) ==
  CASE urgency = "emergency" ->
         [title |-> "Emergency Care Needed",
          description |-> "Contact your emergency vet or animal hospital immediately. These symptoms require immediate professional attention.",
          action |-> "Call Emergency Vet Now",
          color |-> "text-destructive", bgColor |-> "bg-destructive/10"]
    [] urgency = "urgent" ->
         [title |-> "Urgent Veterinary Care",
          description |-> "Schedule an appointment with your vet within the next 24-48 hours. Monitor symptoms closely.",
          action |-> "Schedule Vet Visit",
          color |-> "text-chart-4", bgColor |-> "bg-chart-4/10"]
    [] urgency = "routine" ->
         [title |-> "Routine Care",
          description |-> "These concerns can typically wait for your next routine appointment. Continue monitoring and note any changes.",
          action |-> "Schedule Routine Visit",
          color |-> "text-accent", bgColor |-> "bg-accent/10"]
    [] OTHER -> JNull

\* const recommendation = getRecommendation()
recommendation == getRecommendation(assessment.urgency)

\* the recommendation card the dialog renders: {currentStep === 2 && recommendation && ...}
ShownRecommendation ==
  IF isOpen /\ currentStep = 2 /\ recommendation # JNull THEN recommendation ELSE JNull

----------------------------------------------------------------------------
(* Field setters *)

\* the user's dogs offered for selection, and the dogs in storage
DogIds == {"dog-1"}
StoredDogs == {"dog-1", "dog-2"}

TextInputs == {"", "since yesterday"}
VitalSignsInputs ==
  {EmptyVitalSigns,
   [breathing |-> "fast", heartRate |-> "", temperature |-> "", gumColor |-> "pale"]}

setSelectedDogId(d) ==
  /\ selectedDogId # d
  /\ selectedDogId' = d
  /\ hLast' = Op("setSelectedDogId")
  /\ UNCHANGED <<isOpen, currentStep, selectedSymptoms, duration, severity,
                 currentBehavior, vitalSigns, aiAssessment, isAnalyzing,
                 assessment, toastTitle, pending, hBuckets>>
  /\ UNCHANGED <<formVars, serverVars, billingVars>>

setDuration(v) ==
  /\ duration # v
  /\ duration' = v
  /\ hLast' = Op("setDuration")
  /\ UNCHANGED <<isOpen, currentStep, selectedDogId, selectedSymptoms, severity,
                 currentBehavior, vitalSigns, aiAssessment, isAnalyzing,
                 assessment, toastTitle, pending, hBuckets>>
  /\ UNCHANGED <<formVars, serverVars, billingVars>>

setSeverity(v) ==
  /\ severity # v
  /\ severity' = v
  /\ hLast' = Op("setSeverity")
  /\ UNCHANGED <<isOpen, currentStep, selectedDogId, selectedSymptoms, duration,
                 currentBehavior, vitalSigns, aiAssessment, isAnalyzing,
                 assessment, toastTitle, pending, hBuckets>>
  /\ UNCHANGED <<formVars, serverVars, billingVars>>

setCurrentBehavior(v) ==
  /\ currentBehavior # v
  /\ currentBehavior' = v
  /\ hLast' = Op("setCurrentBehavior")
  /\ UNCHANGED <<isOpen, currentStep, selectedDogId, selectedSymptoms, duration,
                 severity, vitalSigns, aiAssessment, isAnalyzing,
                 assessment, toastTitle, pending, hBuckets>>
  /\ UNCHANGED <<formVars, serverVars, billingVars>>

setVitalSigns(v) ==
  /\ vitalSigns # v
  /\ vitalSigns' = v
  /\ hLast' = Op("setVitalSigns")
  /\ UNCHANGED <<isOpen, currentStep, selectedDogId, selectedSymptoms, duration,
                 severity, currentBehavior, aiAssessment, isAnalyzing,
                 assessment, toastTitle, pending, hBuckets>>
  /\ UNCHANGED <<formVars, serverVars, billingVars>>

----------------------------------------------------------------------------
(* The emergency-assessment request *)

\* a || b on strings
OrElse(a, b) == IF a # "" THEN a ELSE b

\* Object.entries(vitalSigns).filter(([_, value]) => value).reduce(...)
FilledVitalSigns(vs) == [k \in {f \in DOMAIN vs : vs[f] # ""} |-> vs[k]]

\* the body of POST /api/ai/emergency-assessment as performAIAssessment builds it
AssessmentRequest ==
  [dogId |-> selectedDogId,
   assessmentData |->
     [symptoms |-> selectedSymptoms,
      duration |-> OrElse(duration, "Unknown"),
      severity |-> OrElse(severity, "Not specified"),
      currentBehavior |-> OrElse(currentBehavior, "Not specified"),
      vitalSigns |-> FilledVitalSigns(vitalSigns)]]

\* mutant: the validation rejects only when both the dog and the symptoms are missing
performAIAssessmentWeakValidation ==
  /\ hLast' = Op("performAIAssessment")
  /\ IF selectedDogId = "" /\ Len(selectedSymptoms) = 0
     THEN /\ toastTitle' = "Missing Information"
          /\ UNCHANGED <<isAnalyzing, pending>>
     ELSE /\ Len(pending) < MaxInFlight
          /\ isAnalyzing' = TRUE
          /\ pending' = Append(pending, [body |-> AssessmentRequest, stale |-> FALSE])
          /\ UNCHANGED toastTitle
  /\ UNCHANGED <<isOpen, currentStep, selectedDogId, selectedSymptoms, duration,
                 severity, currentBehavior, vitalSigns, aiAssessment,
                 assessment, hBuckets>>
  /\ UNCHANGED <<formVars, serverVars, billingVars>>

performAIAssessment ==
  /\ hLast' = Op("performAIAssessment")
  /\ IF selectedDogId = "" \/ Len(selectedSymptoms) = 0
     THEN /\ toastTitle' = "Missing Information"
          /\ UNCHANGED <<isAnalyzing, pending>>
     ELSE /\ Len(pending) < MaxInFlight
          /\ isAnalyzing' = TRUE
          /\ pending' = Append(pending, [body |-> AssessmentRequest, stale |-> FALSE])
          /\ UNCHANGED toastTitle
  /\ UNCHANGED <<isOpen, currentStep, selectedDogId, selectedSymptoms, duration,
                 severity, currentBehavior, vitalSigns, aiAssessment,
                 assessment, hBuckets>>
  /\ UNCHANGED <<formVars, serverVars, billingVars>>

----------------------------------------------------------------------------
(* Server: POST /api/ai/emergency-assessment and the generative model *)

\* EmergencyAssessment objects the model may answer with
AssessEmergency ==
  [urgencyLevel |-> "emergency", timeFrame |-> "immediately",
   reasoning |-> "life-threatening", immediateActions |-> <<"keep the dog calm">>,
   redFlags |-> <<"seizure">>, vetRequired |-> TRUE]

AssessNonUrgent ==
  [urgencyLevel |-> "non-urgent", timeFrame |-> "next routine visit",
   reasoning |-> "mild", immediateActions |-> <<>>,
   redFlags |-> <<>>, vetRequired |-> FALSE]

\* a SymptomAnalysis and a PhotoAnalysis object the model may answer with
AnalysisSevere ==
  [severity |-> "severe", urgency |-> "emergency", insights |-> "possible bloat",
   recommendations |-> <<"see a vet now">>, vetRequired |-> TRUE,
   emergencyWarning |-> "go to an emergency clinic"]

PhotoFindings ==
  [findings |-> "red patch on the left flank", concerns |-> <<"hot spot">>,
   recommendations |-> <<"keep the area dry">>, urgencyLevel |-> "medium",
   suggestedActions |-> <<"book a visit">>]

\* what ai.models.generateContent does: it throws, or returns a response text
ModelThrows == "<throws>"
ModelFailures == {ModelThrows, "", "   ", "not json"}
ModelOutcomes == ModelFailures \cup {"json:emergency", "json:non-urgent",
                                     "json:assessment without timeFrame",
                                     "json:assessment of urgencyLevel critical"}
SymptomModelOutcomes == ModelFailures \cup {"json:severe", "json:analysis of severity unknown"}
PhotoModelOutcomes == ModelFailures \cup {"json:photo", "json:photo without findings"}

\* rawJson.trim() === ""
IsBlank(text) == text \in {"", "   "}

\* JSON.parse of a response text
JSONParse(text) ==
  CASE text = "json:emergency" -> [ok |-> TRUE, value |-> AssessEmergency]
    [] text = "json:non-urgent" -> [ok |-> TRUE, value |-> AssessNonUrgent]
    [] text = "json:severe" -> [ok |-> TRUE, value |-> AnalysisSevere]
    [] text = "json:photo" -> [ok |-> TRUE, value |-> PhotoFindings]
    [] text = "json:assessment without timeFrame" ->
         [ok |-> TRUE, value |-> [k \in DOMAIN AssessEmergency \ {"timeFrame"} |-> AssessEmergency[k]]]
    [] text = "json:assessment of urgencyLevel critical" ->
         [ok |-> TRUE, value |-> [AssessEmergency EXCEPT !.urgencyLevel = "critical"]]
    [] text = "json:analysis of severity unknown" ->
         [ok |-> TRUE, value |-> [AnalysisSevere EXCEPT !.severity = "unknown"]]
    [] text = "json:photo without findings" ->
         [ok |-> TRUE, value |-> [k \in DOMAIN PhotoFindings \ {"findings"} |-> PhotoFindings[k]]]
    [] OTHER -> [ok |-> FALSE]

\* mutant: a blank answer becomes a result that holds only a default urgency
performEmergencyAssessmentDefaultsOnBlank(outcome) ==
  IF outcome = ModelThrows THEN [ok |-> FALSE]
  ELSE IF outcome = "" \/ IsBlank(outcome)
  THEN [ok |-> TRUE, value |-> [urgencyLevel |-> "non-urgent"]]
  ELSE JSONParse(outcome)

\* performEmergencyAssessment: the parsed object, or a thrown error
performEmergencyAssessment(outcome) ==
  IF outcome = ModelThrows THEN [ok |-> FALSE]
  ELSE IF outcome = "" \/ IsBlank(outcome) THEN [ok |-> FALSE]
  ELSE JSONParse(outcome)

\* analyzeSymptoms of the AI service: the parsed object, or a thrown error
analyzeSymptomsService(outcome) ==
  IF outcome = ModelThrows THEN [ok |-> FALSE]
  ELSE IF outcome = "" \/ IsBlank(outcome) THEN [ok |-> FALSE]
  ELSE JSONParse(outcome)

\* analyzeHealthPhoto: the parsed object, or a thrown error
analyzeHealthPhoto(outcome) ==
  IF outcome = ModelThrows THEN [ok |-> FALSE]
  ELSE IF outcome = "" \/ IsBlank(outcome) THEN [ok |-> FALSE]
  ELSE JSONParse(outcome)

----------------------------------------------------------------------------
(* Server: the clock and the storage collaborator *)

\* dates are [y, m, d]; times are counted in days since 1970-01-01, so that
\* 1000 * 60 * 60 * 24 milliseconds are one unit
IsLeapYear(y) == (y % 4 = 0 /\ y % 100 # 0) \/ y % 400 = 0

DaysInMonth(y, m) ==
  CASE m = 2 -> IF IsLeapYear(y) THEN 29 ELSE 28
    [] m \in {4, 6, 9, 11} -> 30
    [] OTHER -> 31

RECURSIVE DaysBeforeMonth(_, _)
DaysBeforeMonth(y, m) ==
  IF m = 1 THEN 0 ELSE DaysBeforeMonth(y, m - 1) + DaysInMonth(y, m - 1)

DaysBeforeYear(y) == 365 * (y - 1970) + Cardinality({k \in 1970..(y - 1) : IsLeapYear(k)})

\* new Date(date).getTime() of a date column (midnight UTC)
GetTime(date) == DaysBeforeYear(date.y) + DaysBeforeMonth(date.y, date.m) + (date.d - 1)

\* Math.floor((Date.now() - new Date(dog.birthDate).getTime()) / (1000*60*60*24*365));
\* the time of day of Date.now() is less than one unit and does not change the floor
Age(dog) ==
  IF dog.birthDate # JNull
  THEN (GetTime(now) - GetTime(dog.birthDate)) \div 365
  ELSE JUndefined

\* parseFloat of a decimal(5,2) column, written as JavaScript prints the number
ParseFloat(text) ==
  CASE text = "12.50" -> "12.5"
    [] text = "8.00" -> "8"
    [] OTHER -> "NaN"

\* dog.weight ? parseFloat(dog.weight) : undefined
Weight(dog) == IF dog.weight # JNull THEN ParseFloat(dog.weight.decimal) ELSE JUndefined

\* mutant: a lookup that answers with some dog for every id
getDogFindsAnyDog(id) == IF id \in DOMAIN dogs THEN dogs[id] ELSE dogs["dog-1"]

\* storage.getDog
getDog(id) == IF id \in DOMAIN dogs THEN dogs[id] ELSE JUndefined

\* storage.getUserDogs: the ids of the rows WHERE user_id = userId AND is_active
getUserDogs(userId) == {id \in DOMAIN dogs : dogs[id].userId = userId /\ dogs[id].isActive}

\* a variant that deletes the row
deleteDogRemovesRow(id) == [d \in DOMAIN dogs \ {id} |-> dogs[d]]

\* storage.deleteDog: table dogs after UPDATE dogs SET is_active = false WHERE id = id
deleteDog(id) ==
  [d \in DOMAIN dogs |-> IF d = id THEN [dogs[d] EXCEPT !.isActive = FALSE] ELSE dogs[d]]

Min(a, b) == IF a < b THEN a ELSE b

\* the orderings of the rows at positions S that ORDER BY recorded_at DESC
\* allows: rows of equal recordedAt come in any order.  Equal rows give equal
\* orderings, so one position is followed for each different row.
RECURSIVE OrderedDesc(_)
OrderedDesc(S) ==
  IF S = {} THEN {<<>>}
  ELSE LET latest == {i \in S : \A j \in S : healthRecords[j].recordedAt
                                              <= healthRecords[i].recordedAt}
           firsts == {CHOOSE i \in latest : healthRecords[i] = row :
                        row \in {healthRecords[j] : j \in latest}}
       IN UNION {{<<healthRecords[i]>> \o rest : rest \in OrderedDesc(S \ {i})} : i \in firsts}

\* mutant: the rows of every dog
getDogHealthRecordsOfAllDogs(dogId) ==
  OrderedDesc({i \in 1..Len(healthRecords) : TRUE})

\* storage.getDogHealthRecords: the results the query may give
getDogHealthRecords(dogId) ==
  OrderedDesc({i \in 1..Len(healthRecords) : healthRecords[i].dogId = dogId})

\* a call to a collaborator, as srvCalls records it
StorageCall(fn, arg) == [to |-> "storage", fn |-> fn, arg |-> arg]
ModelCall(fn, input) == [to |-> "model", fn |-> fn, input |-> input]

\* { ...a, ...b }
Merge(a, b) == [k \in DOMAIN a \cup DOMAIN b |-> IF k \in DOMAIN b THEN b[k] ELSE a[k]]

----------------------------------------------------------------------------
(* Server: the /api/ai routes *)

\* POST /api/ai/analyze-symptoms: status, JSON body, and the calls made
AnalyzeSymptomsRoute(body, outcome) ==
  IF "dogId" \notin DOMAIN body \/ body.dogId = ""
       \/ "symptomData" \notin DOMAIN body
  THEN [status |-> 400, body |-> [error |-> "Missing required fields: dogId and symptomData"],
        calls |-> <<>>]
  ELSE LET dog == getDog(body.dogId) IN
  IF dog = JUndefined
  THEN [status |-> 404, body |-> [error |-> "Dog not found"],
        calls |-> <<StorageCall("getDog", body.dogId)>>]
  ELSE LET analysisData == Merge(body.symptomData,
                                 [breed |-> dog.breed, age |-> Age(dog), weight |-> Weight(dog)])
           analysis == analyzeSymptomsService(outcome)
           calls == <<StorageCall("getDog", body.dogId),
                      ModelCall("analyzeSymptoms", analysisData)>>
       IN
       IF analysis.ok
       THEN [status |-> 200, body |-> analysis.value, calls |-> calls]
       ELSE [status |-> 500, body |-> [error |-> "Failed to analyze symptoms"], calls |-> calls]

\* POST /api/ai/analyze-photo, for an upload the middleware let through;
\* file is JUndefined when the request carries no photo
AnalyzePhotoRoute(file, outcome) ==
  IF file = JUndefined
  THEN [status |-> 400, body |-> [error |-> "No photo uploaded"], calls |-> <<>>]
  ELSE LET analysis == analyzeHealthPhoto(outcome)
           calls == <<ModelCall("analyzeHealthPhoto", file)>>
       IN
       IF analysis.ok
       THEN [status |-> 200, body |-> analysis.value, calls |-> calls]
       ELSE [status |-> 500, body |-> [error |-> "Failed to analyze photo"], calls |-> calls]

\* recentRecords.slice(0, 5).map(record => `${record.type}: ${record.title}`)
MedicalHistory(recentRecords) ==
  [i \in 1..Min(5, Len(recentRecords)) |->
     recentRecords[i].type \o ": " \o recentRecords[i].title]

\* POST /api/ai/emergency-assessment: status, JSON body, and the calls made;
\* recentRecords is what storage.getDogHealthRecords answers
EmergencyAssessmentRoute(body, outcome, recentRecords) ==
  IF "dogId" \notin DOMAIN body \/ body.dogId = ""
       \/ "assessmentData" \notin DOMAIN body
  THEN [status |-> 400, body |-> [error |-> "Missing required fields: dogId and assessmentData"],
        calls |-> <<>>]
  ELSE LET dog == getDog(body.dogId) IN
  IF dog = JUndefined
  THEN [status |-> 404, body |-> [error |-> "Dog not found"],
        calls |-> <<StorageCall("getDog", body.dogId)>>]
  ELSE LET fullAssessmentData ==
             Merge(body.assessmentData,
                   [dogInfo |-> [breed |-> dog.breed, age |-> Age(dog), weight |-> Weight(dog),
                                 medicalHistory |-> MedicalHistory(recentRecords)]])
           assessment_ == performEmergencyAssessment(outcome)
           calls == <<StorageCall("getDog", body.dogId),
                      [to |-> "storage", fn |-> "getDogHealthRecords", arg |-> body.dogId,
                       result |-> recentRecords],
                      ModelCall("performEmergencyAssessment", fullAssessmentData)>>
       IN
       IF assessment_.ok
       THEN [status |-> 200, body |-> assessment_.value, calls |-> calls]
       ELSE [status |-> 500, body |-> [error |-> "Failed to perform emergency assessment"],
             calls |-> calls]

\* what the model may answer when asked for a summary
SummaryModelOutcomes == {ModelThrows, "", "Rex is in good health."}

\* generateHealthSummary: response.text || "Unable to generate health summary",
\* or a thrown error
generateHealthSummary(outcome) ==
  IF outcome = ModelThrows THEN [ok |-> FALSE]
  ELSE [ok |-> TRUE,
        value |-> IF outcome = "" THEN "Unable to generate health summary" ELSE outcome]

\* recentRecords.map(record => ({type, title, description, severity, recordedAt}))
FormattedRecords(recentRecords) ==
  [i \in 1..Len(recentRecords) |->
     [type |-> recentRecords[i].type, title |-> recentRecords[i].title,
      description |-> JUndefined, severity |-> JUndefined,
      recordedAt |-> recentRecords[i].recordedAt]]

\* POST /api/ai/generate-health-summary: status, JSON body, and the calls made;
\* records is what storage.getDogHealthRecords answers
HealthSummaryRoute(body, outcome, records) ==
  IF "dogId" \notin DOMAIN body \/ body.dogId = ""
  THEN [status |-> 400, body |-> [error |-> "Missing required field: dogId"], calls |-> <<>>]
  ELSE LET dog == getDog(body.dogId) IN
  IF dog = JUndefined
  THEN [status |-> 404, body |-> [error |-> "Dog not found"],
        calls |-> <<StorageCall("getDog", body.dogId)>>]
  ELSE LET recentRecords == SubSeq(records, 1, Min(10, Len(records)))
           dogData == [name |-> dog.name, breed |-> dog.breed, age |-> Age(dog),
                       weight |-> Weight(dog)]
           summary == generateHealthSummary(outcome)
           calls == <<StorageCall("getDog", body.dogId),
                      [to |-> "storage", fn |-> "getDogHealthRecords", arg |-> body.dogId,
                       result |-> records],
                      ModelCall("generateHealthSummary",
                                [dogData |-> dogData,
                                 recentHealthRecords |-> FormattedRecords(recentRecords)])>>
       IN
       IF summary.ok
       THEN [status |-> 200, body |-> [summary |-> summary.value], calls |-> calls]
       ELSE [status |-> 500, body |-> [error |-> "Failed to generate health summary"],
             calls |-> calls]

\* the dogId of a request body, "" when it has none
DogIdOf(body) == IF "dogId" \in DOMAIN body THEN body.dogId ELSE ""

----------------------------------------------------------------------------
(* Client: the continuation of performAIAssessment *)

\* what the network does to a request
Transports == {"delivered", "network error", "unreadable body"}

\* apiRequest: the response, or a thrown error for a network failure or a non-2xx status
apiRequest(transport, response) ==
  IF transport = "network error" THEN [ok |-> FALSE]
  ELSE IF response.status < 200 \/ response.status > 299 THEN [ok |-> FALSE]
  ELSE [ok |-> TRUE, response |-> response, readable |-> transport = "delivered"]

\* lines 137-144: the value handed to setAiAssessment, or a thrown error
AwaitAssessment(transport, response) ==
  LET res == apiRequest(transport, response) IN
  IF ~res.ok THEN [ok |-> FALSE]
  ELSE IF ~res.readable THEN [ok |-> FALSE]
  ELSE [ok |-> TRUE, value |-> GetField(res.response.body, "assessment")]

Remove(seq, i) == [j \in 1..(Len(seq) - 1) |-> IF j < i THEN seq[j] ELSE seq[j + 1]]

\* history: why the request failed, "" when it did not
FailureOf(transport, response) ==
  IF transport # "delivered" THEN transport
  ELSE IF response.status \notin 200..299 THEN "non-2xx status"
  ELSE ""

\* mutant: setCurrentStep(3) runs whether or not the request succeeded
emergencyAssessmentSettledAlwaysAdvances(i, transport, outcome) ==
  \E recentRecords \in getDogHealthRecords(DogIdOf(pending[i].body)) :
  LET response == EmergencyAssessmentRoute(pending[i].body, outcome, recentRecords)
      got == AwaitAssessment(transport, response)
  IN
  /\ pending' = Remove(pending, i)
  /\ IF got.ok
     THEN /\ aiAssessment' = got.value
          /\ toastTitle' = "AI Assessment Complete"
     ELSE /\ toastTitle' = "Assessment Failed"
          /\ UNCHANGED aiAssessment
  /\ currentStep' = 3
  /\ isAnalyzing' = FALSE
  /\ hLast' = [op |-> "emergencyAssessmentSettled", from |-> currentStep,
               stale |-> pending[i].stale, failure |-> FailureOf(transport, response)]
  /\ UNCHANGED <<isOpen, selectedDogId, selectedSymptoms, duration, severity,
                 currentBehavior, vitalSigns, assessment, hBuckets>>
  /\ UNCHANGED <<formVars, serverVars, billingVars>>

\* lines 137-158 from the await on: request i settles, the network having done
\* `transport` and the generative model `outcome`
emergencyAssessmentSettled(i, transport, outcome) ==
  \E recentRecords \in getDogHealthRecords(DogIdOf(pending[i].body)) :
  LET response == EmergencyAssessmentRoute(pending[i].body, outcome, recentRecords)
      got == AwaitAssessment(transport, response)
  IN
  /\ pending' = Remove(pending, i)
  /\ IF got.ok
     THEN /\ aiAssessment' = got.value
          /\ currentStep' = 3
          /\ toastTitle' = "AI Assessment Complete"
     ELSE /\ toastTitle' = "Assessment Failed"
          /\ UNCHANGED <<aiAssessment, currentStep>>
  /\ isAnalyzing' = FALSE
  /\ hLast' = [op |-> "emergencyAssessmentSettled", from |-> currentStep,
               stale |-> pending[i].stale, failure |-> FailureOf(transport, response)]
  /\ UNCHANGED <<isOpen, selectedDogId, selectedSymptoms, duration, severity,
                 currentBehavior, vitalSigns, assessment, hBuckets>>
  /\ UNCHANGED <<formVars, serverVars, billingVars>>

----------------------------------------------------------------------------
(* The health entry form: symptom and photo analysis (Header.tsx) *)

\* the dogId prop of the form
FormDogId == "dog-1"

EmptyForm == [type |-> "", title |-> "", description |-> "", severity |-> ""]
FilledForm == [type |-> "symptom", title |-> "Vomiting", description |-> "twice today",
               severity |-> "moderate"]
FormInputs == {EmptyForm, FilledForm}

\* files the user may pick: a photo, a document, a photo above the size limit
MaxFileSize == 5 * 1024 * 1024
MaxFiles == 5
Photo == [name |-> "flank.jpg", type |-> "image/jpeg", size |-> 204800]
Document == [name |-> "notes.pdf", type |-> "application/pdf", size |-> 1024]
HugePhoto == [name |-> "raw.png", type |-> "image/png", size |-> MaxFileSize + 1]
FileLists == {<<Photo>>, <<Photo, Document>>, <<HugePhoto>>}

\* file.type.startsWith('image/')
IsImageType(type) == type \in {"image/jpeg", "image/png"}

FormOp(name) == [op |-> name]

MarkStaleCalls(calls) == [i \in 1..Len(calls) |-> [calls[i] EXCEPT !.stale = TRUE]]

FormInit ==
  /\ formOpen = FALSE
  /\ formValues = EmptyForm
  /\ selectedFiles = <<>>
  /\ aiAnalysis = JNull
  /\ photoAnalyses = <<>>
  /\ isAnalyzingSymptoms = FALSE
  /\ isAnalyzingPhotos = FALSE
  /\ symptomCalls = <<>>
  /\ photoRuns = <<>>
  /\ formToast = ""
  /\ hFormLast = [op |-> "init"]

\* the dialog trigger: onOpenChange(true)
openForm ==
  /\ ~formOpen
  /\ formOpen' = TRUE
  /\ hFormLast' = FormOp("openForm")
  /\ UNCHANGED <<formValues, selectedFiles, aiAnalysis, photoAnalyses,
                 isAnalyzingSymptoms, isAnalyzingPhotos, symptomCalls, photoRuns,
                 formToast>>
  /\ UNCHANGED <<sessionVars, serverVars, billingVars>>

\* Escape or a click outside: onOpenChange(false)
dismissForm ==
  /\ formOpen
  /\ formOpen' = FALSE
  /\ symptomCalls' = MarkStaleCalls(symptomCalls)
  /\ photoRuns' = MarkStaleCalls(photoRuns)
  /\ hFormLast' = FormOp("dismissForm")
  /\ UNCHANGED <<formValues, selectedFiles, aiAnalysis, photoAnalyses,
                 isAnalyzingSymptoms, isAnalyzingPhotos, formToast>>
  /\ UNCHANGED <<sessionVars, serverVars, billingVars>>

resetAnalyses ==
  /\ aiAnalysis' = JNull
  /\ photoAnalyses' = <<>>
  /\ symptomCalls' = MarkStaleCalls(symptomCalls)
  /\ photoRuns' = MarkStaleCalls(photoRuns)
  /\ hFormLast' = FormOp("resetAnalyses")
  /\ UNCHANGED <<formOpen, formValues, selectedFiles, isAnalyzingSymptoms,
                 isAnalyzingPhotos, formToast>>
  /\ UNCHANGED <<sessionVars, serverVars, billingVars>>

\* "Cancel": setIsOpen(false); resetAnalyses()
cancelForm ==
  /\ formOpen
  /\ formOpen' = FALSE
  /\ aiAnalysis' = JNull
  /\ photoAnalyses' = <<>>
  /\ symptomCalls' = MarkStaleCalls(symptomCalls)
  /\ photoRuns' = MarkStaleCalls(photoRuns)
  /\ hFormLast' = FormOp("cancelForm")
  /\ UNCHANGED <<formValues, selectedFiles, isAnalyzingSymptoms,
                 isAnalyzingPhotos, formToast>>
  /\ UNCHANGED <<sessionVars, serverVars, billingVars>>

\* the user edits the form fields
setFormValues(v) ==
  /\ formOpen
  /\ formValues # v
  /\ formValues' = v
  /\ hFormLast' = FormOp("setFormValues")
  /\ UNCHANGED <<formOpen, selectedFiles, aiAnalysis, photoAnalyses,
                 isAnalyzingSymptoms, isAnalyzingPhotos, symptomCalls, photoRuns,
                 formToast>>
  /\ UNCHANGED <<sessionVars, serverVars, billingVars>>

\* the files of a selection that pass the type and size checks
AcceptedFiles(files) ==
  SelectSeq(files, LAMBDA f : IsImageType(f.type) /\ ~(f.size > MaxFileSize))

\* the toast the last rejected file of a selection leaves, if any
RejectionToast(files, before) ==
  LET rejected == {i \in 1..Len(files) :
                     ~IsImageType(files[i].type) \/ files[i].size > MaxFileSize}
  IN IF rejected = {} THEN before
     ELSE LET last == CHOOSE i \in rejected : \A j \in rejected : j <= i
          IN IF ~IsImageType(files[last].type) THEN "Invalid File" ELSE "File Too Large"

\* a variant whose limit counts the new files only
handleFileSelectCountsNewFilesOnly(files) ==
  LET newFiles == AcceptedFiles(files)
      totalFiles == Len(newFiles)
  IN
  /\ IF totalFiles > MaxFiles
     THEN /\ formToast' = "Too Many Files"
          /\ UNCHANGED selectedFiles
     ELSE /\ formToast' = RejectionToast(files, formToast)
          /\ selectedFiles' = selectedFiles \o newFiles
  /\ hFormLast' = [op |-> "handleFileSelect", files |-> files]
  /\ UNCHANGED <<formOpen, formValues, aiAnalysis, photoAnalyses,
                 isAnalyzingSymptoms, isAnalyzingPhotos, symptomCalls, photoRuns>>
  /\ UNCHANGED <<sessionVars, serverVars, billingVars>>

\* the field `files` of hFormLast records event.target.files
handleFileSelect(files) ==
  LET newFiles == AcceptedFiles(files)
      totalFiles == Len(selectedFiles) + Len(newFiles)
  IN
  /\ IF totalFiles > MaxFiles
     THEN /\ formToast' = "Too Many Files"
          /\ UNCHANGED selectedFiles
     ELSE /\ formToast' = RejectionToast(files, formToast)
          /\ selectedFiles' = selectedFiles \o newFiles
  /\ hFormLast' = [op |-> "handleFileSelect", files |-> files]
  /\ UNCHANGED <<formOpen, formValues, aiAnalysis, photoAnalyses,
                 isAnalyzingSymptoms, isAnalyzingPhotos, symptomCalls, photoRuns>>
  /\ UNCHANGED <<sessionVars, serverVars, billingVars>>

\* prev.filter((_, i) => i !== index), index counted from 0
removeFile(index) ==
  /\ selectedFiles' =
       IF index \in 0..(Len(selectedFiles) - 1)
       THEN [j \in 1..(Len(selectedFiles) - 1) |->
               IF j <= index THEN selectedFiles[j] ELSE selectedFiles[j + 1]]
       ELSE selectedFiles
  /\ hFormLast' = FormOp("removeFile")
  /\ UNCHANGED <<formOpen, formValues, aiAnalysis, photoAnalyses,
                 isAnalyzingSymptoms, isAnalyzingPhotos, symptomCalls, photoRuns,
                 formToast>>
  /\ UNCHANGED <<sessionVars, serverVars, billingVars>>

\* the body of POST /api/ai/analyze-symptoms as analyzeSymptoms builds it
SymptomRequest ==
  [dogId |-> FormDogId,
   symptomData |-> [type |-> formValues.type, title |-> formValues.title,
                    description |-> formValues.description,
                    severity |-> formValues.severity]]

analyzeSymptoms ==
  /\ hFormLast' = FormOp("analyzeSymptoms")
  /\ IF formValues.type = "" \/ formValues.title = ""
     THEN /\ formToast' = "Missing Information"
          /\ UNCHANGED <<isAnalyzingSymptoms, symptomCalls>>
     ELSE /\ Len(symptomCalls) < MaxInFlight
          /\ isAnalyzingSymptoms' = TRUE
          /\ symptomCalls' = Append(symptomCalls, [body |-> SymptomRequest, stale |-> FALSE])
          /\ UNCHANGED formToast
  /\ UNCHANGED <<formOpen, formValues, selectedFiles, aiAnalysis, photoAnalyses,
                 isAnalyzingPhotos, photoRuns>>
  /\ UNCHANGED <<sessionVars, serverVars, billingVars>>

\* lines 277-287: the value handed to setAiAnalysis, or a thrown error
AwaitAnalysis(transport, response) ==
  LET res == apiRequest(transport, response) IN
  IF ~res.ok THEN [ok |-> FALSE]
  ELSE IF ~res.readable THEN [ok |-> FALSE]
  ELSE [ok |-> TRUE, value |-> res.response.body]

\* lines 277-302 from the await on
symptomAnalysisSettled(i, transport, outcome) ==
  LET response == AnalyzeSymptomsRoute(symptomCalls[i].body, outcome)
      got == AwaitAnalysis(transport, response)
  IN
  /\ symptomCalls' = Remove(symptomCalls, i)
  /\ IF got.ok
     THEN /\ aiAnalysis' = got.value
          /\ formToast' = "AI Analysis Complete"
     ELSE /\ formToast' = "Analysis Failed"
          /\ UNCHANGED aiAnalysis
  /\ isAnalyzingSymptoms' = FALSE
  /\ hFormLast' = [op |-> "symptomAnalysisSettled", stale |-> symptomCalls[i].stale,
                   failure |-> FailureOf(transport, response)]
  /\ UNCHANGED <<formOpen, formValues, selectedFiles, photoAnalyses,
                 isAnalyzingPhotos, photoRuns>>
  /\ UNCHANGED <<sessionVars, serverVars, billingVars>>

\* analyzePhotos up to its first fetch: the run keeps the files and the
\* analyses collected so far
analyzePhotos ==
  /\ hFormLast' = FormOp("analyzePhotos")
  /\ IF Len(selectedFiles) = 0
     THEN /\ formToast' = "No Photos"
          /\ UNCHANGED <<isAnalyzingPhotos, photoRuns>>
     ELSE /\ Len(photoRuns) < MaxInFlight
          /\ isAnalyzingPhotos' = TRUE
          /\ photoRuns' = Append(photoRuns,
               [files |-> selectedFiles, next |-> 1, analyses |-> <<>>, stale |-> FALSE,
                failed |-> {}])
          /\ UNCHANGED formToast
  /\ UNCHANGED <<formOpen, formValues, selectedFiles, aiAnalysis, photoAnalyses,
                 isAnalyzingSymptoms, symptomCalls>>
  /\ UNCHANGED <<sessionVars, serverVars, billingVars>>

\* lines 325-351: the fetch of run r for its current file settles.  The run's
\* `failed` and the fields collected, remaining, total and failed of hFormLast
\* are history.
photoFetchSettled(r, transport, outcome) ==
  LET run == photoRuns[r]
      response == AnalyzePhotoRoute(run.files[run.next], outcome)
      ok == response.status \in 200..299
      threw == transport = "network error" \/ (ok /\ transport = "unreadable body")
      analyses == IF ok /\ ~threw THEN Append(run.analyses, response.body) ELSE run.analyses
      \* history: the files of the run whose analysis failed so far
      failed == IF FailureOf(transport, response) # ""
                THEN run.failed \cup {run.next} ELSE run.failed
  IN
  /\ hFormLast' = [op |-> "photoFetchSettled", stale |-> run.stale,
                   failure |-> FailureOf(transport, response),
                   collected |-> run.analyses,
                   remaining |-> Len(run.files) - run.next,
                   total |-> Len(run.files),
                   failed |-> failed]
  /\ IF threw
     THEN /\ photoRuns' = Remove(photoRuns, r)
          /\ formToast' = "Photo Analysis Failed"
          /\ isAnalyzingPhotos' = FALSE
          /\ UNCHANGED photoAnalyses
     ELSE IF run.next < Len(run.files)
     THEN /\ photoRuns' = [photoRuns EXCEPT ![r].next = run.next + 1, ![r].analyses = analyses,
                                            ![r].failed = failed]
          /\ UNCHANGED <<formToast, isAnalyzingPhotos, photoAnalyses>>
     ELSE /\ photoRuns' = Remove(photoRuns, r)
          /\ photoAnalyses' = analyses
          /\ formToast' = "Photo Analysis Complete"
          /\ isAnalyzingPhotos' = FALSE
  /\ UNCHANGED <<formOpen, formValues, selectedFiles, aiAnalysis,
                 isAnalyzingSymptoms, symptomCalls>>
  /\ UNCHANGED <<sessionVars, serverVars, billingVars>>

----------------------------------------------------------------------------
(* Server operations *)

Date(y, m, d) == [y |-> y, m |-> m, d |-> d]

\* the rows of table dogs; birthDate and weight are nullable columns
DogRow(userId, name, breed, birthDate, weight) ==
  [userId |-> userId, name |-> name, breed |-> breed, birthDate |-> birthDate,
   weight |-> weight, isActive |-> TRUE]

\* req.user.claims.sub of the authenticated users
Users == {"user-1", "user-2"}

DogsBorn(birthDate) ==
  [id \in StoredDogs |->
     IF id = "dog-1" THEN DogRow("user-1", "Rex", "Beagle", birthDate, [decimal |-> "12.50"])
     ELSE DogRow("user-2", "Milo", "Poodle", JNull, JNull)]

ServerInit ==
  /\ now = Date(2024, 12, 31)
  /\ dogs = DogsBorn(Date(2022, 1, 31))
  /\ healthRecords = <<>>
  /\ srvRequest = JNull
  /\ srvResponse = JNull
  /\ srvCalls = <<>>

\* the handler of POST /api/ai/analyze-symptoms
postAnalyzeSymptoms(user, body, outcome) ==
  LET r == AnalyzeSymptomsRoute(body, outcome) IN
  /\ srvRequest' = [route |-> "analyze-symptoms", user |-> user, body |-> body, outcome |-> outcome]
  /\ srvResponse' = [status |-> r.status, body |-> r.body]
  /\ srvCalls' = r.calls
  /\ UNCHANGED <<now, dogs, healthRecords>>
  /\ UNCHANGED <<sessionVars, formVars, billingVars>>

\* the handler of POST /api/ai/analyze-photo
postAnalyzePhoto(user, file, outcome) ==
  LET r == AnalyzePhotoRoute(file, outcome) IN
  /\ srvRequest' = [route |-> "analyze-photo", user |-> user, body |-> [photo |-> file],
                   outcome |-> outcome]
  /\ srvResponse' = [status |-> r.status, body |-> r.body]
  /\ srvCalls' = r.calls
  /\ UNCHANGED <<now, dogs, healthRecords>>
  /\ UNCHANGED <<sessionVars, formVars, billingVars>>

\* a variant that files the assessment as a health record
postEmergencyAssessmentKeepsRecord(user, body, outcome) ==
  /\ \E recentRecords \in getDogHealthRecords(DogIdOf(body)) :
       LET r == EmergencyAssessmentRoute(body, outcome, recentRecords) IN
       /\ srvResponse' = [status |-> r.status, body |-> r.body]
       /\ srvCalls' = r.calls
  /\ srvRequest' = [route |-> "emergency-assessment", user |-> user, body |-> body,
                   outcome |-> outcome]
  /\ healthRecords' =
       IF DogIdOf(body) \in DOMAIN dogs
       THEN Append(healthRecords, [dogId |-> body.dogId, type |-> "emergency",
                                   title |-> "Emergency assessment", recordedAt |-> 3])
       ELSE healthRecords
  /\ UNCHANGED <<now, dogs>>
  /\ UNCHANGED <<sessionVars, formVars, billingVars>>

\* the handler of POST /api/ai/emergency-assessment
postEmergencyAssessment(user, body, outcome) ==
  /\ \E recentRecords \in getDogHealthRecords(DogIdOf(body)) :
       LET r == EmergencyAssessmentRoute(body, outcome, recentRecords) IN
       /\ srvResponse' = [status |-> r.status, body |-> r.body]
       /\ srvCalls' = r.calls
  /\ srvRequest' = [route |-> "emergency-assessment", user |-> user, body |-> body,
                   outcome |-> outcome]
  /\ UNCHANGED <<now, dogs, healthRecords>>
  /\ UNCHANGED <<sessionVars, formVars, billingVars>>

\* the handler of POST /api/ai/generate-health-summary
postGenerateHealthSummary(user, body, outcome) ==
  /\ \E records \in getDogHealthRecords(DogIdOf(body)) :
       LET r == HealthSummaryRoute(body, outcome, records) IN
       /\ srvResponse' = [status |-> r.status, body |-> r.body]
       /\ srvCalls' = r.calls
  /\ srvRequest' = [route |-> "generate-health-summary", user |-> user, body |-> body,
                    outcome |-> outcome]
  /\ UNCHANGED <<now, dogs, healthRecords>>
  /\ UNCHANGED <<sessionVars, formVars, billingVars>>

\* the handler of GET /api/dogs
getDogs(user) ==
  /\ srvRequest' = [route |-> "dogs", user |-> user, body |-> << >>, outcome |-> ""]
  /\ srvResponse' = [status |-> 200, body |-> getUserDogs(user)]
  /\ srvCalls' = <<StorageCall("getUserDogs", user)>>
  /\ UNCHANGED <<now, dogs, healthRecords>>
  /\ UNCHANGED <<sessionVars, formVars, billingVars>>

\* the handler of DELETE /api/dogs/:id
deleteDogRoute(user, id) ==
  /\ dogs' = deleteDog(id)
  /\ srvRequest' = [route |-> "delete-dog", user |-> user, body |-> [dogId |-> id],
                    outcome |-> ""]
  /\ srvResponse' = [status |-> 200, body |-> [success |-> TRUE]]
  /\ srvCalls' = <<StorageCall("deleteDog", id)>>
  /\ UNCHANGED <<now, healthRecords>>
  /\ UNCHANGED <<sessionVars, formVars, billingVars>>

\* the handler of GET /api/dogs/:dogId/health-records
getHealthRecords(user, dogId) ==
  /\ \E records \in getDogHealthRecords(dogId) :
       srvResponse' = [status |-> 200, body |-> records]
  /\ srvRequest' = [route |-> "get-health-records", user |-> user,
                    body |-> [dogId |-> dogId], outcome |-> ""]
  /\ srvCalls' = <<StorageCall("getDogHealthRecords", dogId)>>
  /\ UNCHANGED <<now, dogs, healthRecords>>
  /\ UNCHANGED <<sessionVars, formVars, billingVars>>

\* POST /api/dogs/:dogId/health-records with a record the insert schema accepts
createHealthRecord(user, record) ==
  /\ record.dogId \in DOMAIN dogs
  /\ healthRecords' = Append(healthRecords, record)
  /\ srvRequest' = [route |-> "health-records", user |-> user, body |-> record, outcome |-> ""]
  /\ srvResponse' = [status |-> 200, body |-> record]
  /\ srvCalls' = <<StorageCall("createHealthRecord", record)>>
  /\ UNCHANGED <<now, dogs>>
  /\ UNCHANGED <<sessionVars, formVars, billingVars>>

----------------------------------------------------------------------------
(* Server: POST /api/get-or-create-subscription *)

\* bound: calls to the subscription route
MaxCalls == 3

\* user.claims.email: user-2 has no email on file
Email(user) == IF user = "user-1" THEN [address |-> "ann@example.com"] ELSE JUndefined

\* a row of table users, as upsertUser leaves it
UserRow == [stripeCustomerId |-> JNull, stripeSubscriptionId |-> JNull, isPremium |-> FALSE]

BillingInit ==
  /\ users = [u \in Users |-> UserRow]
  /\ stripeCustomers = <<>>
  /\ stripeSubscriptions = <<>>
  /\ subscriptionCalls = <<>>

\* storage.getUser
getUser(id) == IF id \in DOMAIN users THEN users[id] ELSE JUndefined

\* storage.updateUserStripeInfo: table users after the UPDATE
updateUserStripeInfo(userId, stripeCustomerId, stripeSubscriptionId) ==
  [u \in DOMAIN users |->
     IF u = userId
     THEN [users[u] EXCEPT !.stripeCustomerId = stripeCustomerId,
                           !.stripeSubscriptionId = stripeSubscriptionId,
                           !.isPremium = TRUE]
     ELSE users[u]]

\* the call at position i moves to `at`, holding what `held` adds
CallMoved(i, at, held) ==
  [subscriptionCalls EXCEPT ![i] = Merge(Merge(subscriptionCalls[i], held), [at |-> at])]

\* res.status(status).json(body) ends the call at position i
CallAnswered(i, status, body) ==
  CallMoved(i, "answered", [status |-> status, body |-> body])

\* the handler up to its first await: the email check, then storage.getUser is called
postGetOrCreateSubscription(user) ==
  /\ Len(subscriptionCalls) < MaxCalls
  /\ subscriptionCalls' =
       Append(subscriptionCalls,
              IF Email(user) = JUndefined
              THEN [user |-> user, at |-> "answered", status |-> 400,
                    body |-> [error |-> [message |-> "No user email on file"]]]
              ELSE [user |-> user, at |-> "getUser"])
  /\ UNCHANGED <<users, stripeCustomers, stripeSubscriptions>>
  /\ UNCHANGED <<sessionVars, formVars, serverVars>>

\* storage.getUser answers: the handler retrieves the stored subscription, or
\* goes on to create a customer
getUserSettled(i) ==
  /\ subscriptionCalls[i].at = "getUser"
  /\ LET userData == getUser(subscriptionCalls[i].user) IN
     subscriptionCalls' =
       IF userData # JUndefined /\ userData.stripeSubscriptionId # JNull
       THEN CallMoved(i, "subscriptions.retrieve", [userData |-> userData])
       ELSE CallMoved(i, "customers.create", [userData |-> userData])
  /\ UNCHANGED <<users, stripeCustomers, stripeSubscriptions>>
  /\ UNCHANGED <<sessionVars, formVars, serverVars>>

\* stripe.subscriptions.retrieve answers, or throws
subscriptionRetrieved(i, ok) ==
  /\ subscriptionCalls[i].at = "subscriptions.retrieve"
  /\ subscriptionCalls' =
       IF ok
       THEN CallAnswered(i, 200,
                         [subscriptionId |-> subscriptionCalls[i].userData.stripeSubscriptionId])
       ELSE CallAnswered(i, 400, [error |-> [message |-> "stripe error"]])
  /\ UNCHANGED <<users, stripeCustomers, stripeSubscriptions>>
  /\ UNCHANGED <<sessionVars, formVars, serverVars>>

\* stripe.customers.create answers with a new customer, or throws
customerCreated(i, ok) ==
  /\ subscriptionCalls[i].at = "customers.create"
  /\ IF ok
     THEN LET customer == [id |-> [cus |-> Len(stripeCustomers) + 1],
                           email |-> Email(subscriptionCalls[i].user)]
          IN /\ stripeCustomers' = Append(stripeCustomers, customer)
             /\ subscriptionCalls' = CallMoved(i, "subscriptions.create", [customer |-> customer])
     ELSE /\ subscriptionCalls' = CallAnswered(i, 400, [error |-> [message |-> "stripe error"]])
          /\ UNCHANGED stripeCustomers
  /\ UNCHANGED <<users, stripeSubscriptions>>
  /\ UNCHANGED <<sessionVars, formVars, serverVars>>

\* stripe.subscriptions.create answers with a new subscription, or throws
subscriptionCreated(i, ok) ==
  /\ subscriptionCalls[i].at = "subscriptions.create"
  /\ IF ok
     THEN LET subscription == [id |-> [sub |-> Len(stripeSubscriptions) + 1],
                               customer |-> subscriptionCalls[i].customer.id]
          IN /\ stripeSubscriptions' = Append(stripeSubscriptions, subscription)
             /\ subscriptionCalls' =
                  CallMoved(i, "updateUserStripeInfo", [subscription |-> subscription])
     ELSE /\ subscriptionCalls' = CallAnswered(i, 400, [error |-> [message |-> "stripe error"]])
          /\ UNCHANGED stripeSubscriptions
  /\ UNCHANGED <<users, stripeCustomers>>
  /\ UNCHANGED <<sessionVars, formVars, serverVars>>

\* storage.updateUserStripeInfo is done and the handler answers
stripeInfoUpdated(i) ==
  /\ subscriptionCalls[i].at = "updateUserStripeInfo"
  /\ users' = updateUserStripeInfo(subscriptionCalls[i].user,
                                   subscriptionCalls[i].customer.id,
                                   subscriptionCalls[i].subscription.id)
  /\ subscriptionCalls' =
       CallAnswered(i, 200, [subscriptionId |-> subscriptionCalls[i].subscription.id])
  /\ UNCHANGED <<stripeCustomers, stripeSubscriptions>>
  /\ UNCHANGED <<sessionVars, formVars, serverVars>>

----------------------------------------------------------------------------
(* Specifications *)

Init == SessionInit /\ FormInit /\ ServerInit /\ BillingInit

\* The session as a contract: every handler of the dialog may be called in
\* any state and in any order.
Next ==
  \/ startAssessment
  \/ closeDialog
  \/ continueAssessment
  \/ backToIntro
  \/ \E b \in ButtonInputs : handleSymptomCheck(b[1], b[2])
  \/ resetAssessment
  \/ \E s \in ClickedPhrases : toggleSymptom(s)
  \/ \E d \in DogIds \cup {""} : setSelectedDogId(d)

Spec == Init /\ [][Next]_vars

\* The dialog as the user can drive it: each handler behind the control that
\* calls it, in the view that renders the control.
clickSymptomButton(b) ==
  /\ isOpen
  /\ currentStep = 1
  /\ handleSymptomCheck(b[1], b[2])

clickStartOver ==
  /\ isOpen
  /\ currentStep = 2
  /\ recommendation # JNull
  /\ resetAssessment

\* The dialog's controls, and the state setters while the dialog is open.
NextDialog ==
  \/ startAssessment
  \/ closeDialog
  \/ continueAssessment
  \/ backToIntro
  \/ \E b \in ButtonInputs : clickSymptomButton(b)
  \/ clickStartOver
  \/ \E d \in DogIds \cup {""} : isOpen /\ setSelectedDogId(d)
  \/ \E v \in TextInputs : isOpen /\ setDuration(v)
  \/ \E v \in TextInputs : isOpen /\ setSeverity(v)
  \/ \E v \in TextInputs : isOpen /\ setCurrentBehavior(v)
  \/ \E v \in VitalSignsInputs : isOpen /\ setVitalSigns(v)

SpecDialog == Init /\ [][NextDialog]_vars

\* The routes answer an empty, blank or unparseable model text exactly as a
\* throwing model call; the client specifications enumerate the throwing call
\* for all of them.
OneFailure(outcomes) == outcomes \ (ModelFailures \ {ModelThrows})

\* The open dialog with its AI request; one phrase is selected and toggled.
AIToggleInputs == {"Persistent vomiting"}
AIButtonInputs == {b \in SymptomButtons : b[1] \in AIToggleInputs}

NextAI ==
  \/ startAssessment
  \/ closeDialog
  \/ continueAssessment
  \/ \E b \in AIButtonInputs : clickSymptomButton(b)
  \/ clickStartOver
  \/ \E s \in AIToggleInputs : isOpen /\ toggleSymptom(s)
  \/ \E d \in DogIds \cup {""} : isOpen /\ setSelectedDogId(d)
  \/ isOpen /\ performAIAssessment
  \/ \E i \in 1..Len(pending) : \E t \in Transports : \E o \in OneFailure(ModelOutcomes) :
       emergencyAssessmentSettled(i, t, o)

SpecAI == Init /\ [][NextAI]_vars

\* The health entry form as the user can drive it.
\* bound of this specification: photos selected at once
MaxBatch == 2

clickAnalyzeSymptoms ==
  /\ formOpen
  /\ ~isAnalyzingSymptoms
  /\ analyzeSymptoms

clickAnalyzePhotos ==
  /\ formOpen
  /\ ~(isAnalyzingPhotos \/ Len(selectedFiles) = 0)
  /\ analyzePhotos

clickClearAnalysis ==
  /\ formOpen
  /\ (aiAnalysis # JNull \/ Len(photoAnalyses) > 0)
  /\ resetAnalyses

pickFiles(files) ==
  /\ formOpen
  /\ ~(Len(selectedFiles) >= MaxFiles)
  /\ Len(selectedFiles) < MaxBatch
  /\ handleFileSelect(files)

clickRemoveFile(index) ==
  /\ formOpen
  /\ removeFile(index)

NextForm ==
  \/ openForm
  \/ dismissForm
  \/ cancelForm
  \/ \E v \in FormInputs : setFormValues(v)
  \/ \E files \in FileLists : pickFiles(files)
  \/ \E index \in 1..Len(selectedFiles) : clickRemoveFile(index - 1)
  \/ clickAnalyzeSymptoms
  \/ clickAnalyzePhotos
  \/ clickClearAnalysis
  \/ \E i \in 1..Len(symptomCalls) : \E t \in Transports : \E o \in OneFailure(SymptomModelOutcomes) :
       symptomAnalysisSettled(i, t, o)
  \/ \E r \in 1..Len(photoRuns) : \E t \in Transports : \E o \in OneFailure(PhotoModelOutcomes) :
       photoFetchSettled(r, t, o)

SpecForm == Init /\ [][NextForm]_vars

\* The file input and the remove buttons alone, with selections that reach
\* the limit of five photos.
SidePhoto == [name |-> "side.jpg", type |-> "image/jpeg", size |-> 409600]
LimitPhoto == [name |-> "limit.png", type |-> "image/png", size |-> MaxFileSize]
FilePicks == FileLists \cup {<<SidePhoto, Photo, SidePhoto>>, <<LimitPhoto>>,
                             <<LimitPhoto, HugePhoto, Document, SidePhoto>>}

NextFiles ==
  \/ \E files \in FilePicks : handleFileSelect(files)
  \/ \E index \in 0..(Len(selectedFiles) - 1) : removeFile(index)

SpecFiles == Init /\ [][NextFiles]_vars

\* The /api/ai routes: requests of every shape, for dogs of several birth
\* dates, on several days.
NowDates == {Date(2024, 12, 31), Date(2025, 1, 1), Date(2025, 3, 1)}
BirthDates ==
  {Date(2022, 1, 31), Date(2020, 1, 1), Date(2024, 1, 1), Date(2024, 3, 1), Date(2021, 12, 31)}

InitServer ==
  /\ SessionInit
  /\ FormInit
  /\ BillingInit
  /\ now \in NowDates
  /\ dogs \in {DogsBorn(b) : b \in BirthDates \cup {JNull}}
  /\ healthRecords = <<>>
  /\ srvRequest = JNull
  /\ srvResponse = JNull
  /\ srvCalls = <<>>

AssessmentData(symptoms) ==
  [symptoms |-> symptoms, duration |-> "Unknown", severity |-> "Not specified",
   currentBehavior |-> "Not specified", vitalSigns |-> << >>]

\* the assessmentData the dialog sends for one symptom
VomitingAssessment == AssessmentData(<<"Persistent vomiting">>)

AssessmentBodies ==
  {[assessmentData |-> AssessmentData(<<"Persistent vomiting">>)],
   [dogId |-> "", assessmentData |-> AssessmentData(<<"Persistent vomiting">>)],
   [dogId |-> "dog-1"],
   [dogId |-> "dog-9", assessmentData |-> AssessmentData(<<"Persistent vomiting">>)],
   [dogId |-> "dog-1", assessmentData |-> AssessmentData(<<>>)],
   [dogId |-> "dog-1", assessmentData |-> [duration |-> "Unknown"]],
   [dogId |-> "dog-1", assessmentData |-> AssessmentData(<<"Persistent vomiting">>)]}

SymptomBodies ==
  {[symptomData |-> FilledForm],
   [dogId |-> "dog-1"],
   [dogId |-> "dog-9", symptomData |-> FilledForm],
   [dogId |-> "dog-1", symptomData |-> [FilledForm EXCEPT !.type = ""]],
   [dogId |-> "dog-1", symptomData |-> [FilledForm EXCEPT !.title = ""]],
   [dogId |-> "dog-1", symptomData |-> FilledForm]}

NextServer ==
  \/ \E body \in SymptomBodies : \E o \in SymptomModelOutcomes : postAnalyzeSymptoms("user-1", body, o)
  \/ \E file \in {Photo, JUndefined} : \E o \in PhotoModelOutcomes : postAnalyzePhoto("user-1", file, o)
  \/ \E body \in AssessmentBodies : \E o \in ModelOutcomes : postEmergencyAssessment("user-1", body, o)

SpecServer == InitServer /\ [][NextServer]_vars

\* The medical history: health records of dog-1 are created next to a record
\* of dog-2, and assessments are asked for.
\* bound of this specification: rows of table health_records
MaxRecords == 7

OtherDogRecord ==
  [dogId |-> "dog-2", type |-> "symptom", title |-> "Limping", recordedAt |-> 3]

RecordInputs ==
  {[dogId |-> "dog-1", type |-> "symptom", title |-> "Vomiting", recordedAt |-> 2],
   [dogId |-> "dog-1", type |-> "checkup", title |-> "Annual exam", recordedAt |-> 1],
   [dogId |-> "dog-1", type |-> "weight", title |-> "Weigh-in", recordedAt |-> 2]}

InitHistory ==
  /\ SessionInit
  /\ FormInit
  /\ BillingInit
  /\ now = Date(2024, 12, 31)
  /\ dogs = DogsBorn(Date(2022, 1, 31))
  /\ healthRecords = <<OtherDogRecord>>
  /\ srvRequest = JNull
  /\ srvResponse = JNull
  /\ srvCalls = <<>>

NextHistory ==
  \/ \E record \in RecordInputs :
       Len(healthRecords) < MaxRecords /\ createHealthRecord("user-1", record)
  \/ \E d \in StoredDogs :
       postEmergencyAssessment(
         "user-1",
         [dogId |-> d, assessmentData |-> VomitingAssessment],
         "json:emergency")

SpecHistory == InitHistory /\ [][NextHistory]_vars

\* Two users with one dog each: every dog route and AI route, asked by either
\* user for either dog.
\* bound of this specification: rows of table health_records
MaxRows == 3

OwnDogRecord ==
  [dogId |-> "dog-1", type |-> "symptom", title |-> "Vomiting", recordedAt |-> 2]

InitAccounts ==
  /\ SessionInit
  /\ FormInit
  /\ BillingInit
  /\ now = Date(2024, 12, 31)
  /\ dogs = DogsBorn(Date(2022, 1, 31))
  /\ healthRecords = <<OwnDogRecord, OtherDogRecord>>
  /\ srvRequest = JNull
  /\ srvResponse = JNull
  /\ srvCalls = <<>>

RequestedDogs == StoredDogs \cup {"dog-9"}

NextAccounts ==
  \/ \E user \in Users : getDogs(user)
  \/ \E user \in Users : \E d \in RequestedDogs : deleteDogRoute(user, d)
  \/ \E user \in Users : \E d \in RequestedDogs : getHealthRecords(user, d)
  \/ \E user \in Users : \E record \in {OwnDogRecord, OtherDogRecord} :
       Len(healthRecords) < MaxRows /\ createHealthRecord(user, record)
  \/ \E user \in Users : \E d \in RequestedDogs : \E o \in {ModelThrows, "json:severe"} :
       postAnalyzeSymptoms(user, [dogId |-> d, symptomData |-> FilledForm], o)
  \/ \E user \in Users : \E o \in {ModelThrows, "json:photo"} :
       postAnalyzePhoto(user, Photo, o)
  \/ \E user \in Users : \E d \in RequestedDogs : \E o \in {ModelThrows, "json:emergency"} :
       postEmergencyAssessment(
         user, [dogId |-> d, assessmentData |-> VomitingAssessment], o)
  \/ \E user \in Users : \E body \in {[dogId |-> d] : d \in RequestedDogs} \cup {<< >>} :
       \E o \in SummaryModelOutcomes : postGenerateHealthSummary(user, body, o)

SpecAccounts == InitAccounts /\ [][NextAccounts]_vars

\* The subscription route: calls of either user, which may overlap.
NextSubscription ==
  \/ \E user \in Users : postGetOrCreateSubscription(user)
  \/ \E i \in 1..Len(subscriptionCalls) : getUserSettled(i)
  \/ \E i \in 1..Len(subscriptionCalls) : \E ok \in BOOLEAN : subscriptionRetrieved(i, ok)
  \/ \E i \in 1..Len(subscriptionCalls) : \E ok \in BOOLEAN : customerCreated(i, ok)
  \/ \E i \in 1..Len(subscriptionCalls) : \E ok \in BOOLEAN : subscriptionCreated(i, ok)
  \/ \E i \in 1..Len(subscriptionCalls) : stripeInfoUpdated(i)

SpecSubscription == Init /\ [][NextSubscription]_vars

----------------------------------------------------------------------------
(* Properties of the local classifier and of the session *)

\* the bucket the taxonomy tables give a phrase
BucketOf(symptom) == (CHOOSE b \in SymptomButtons : b[1] = symptom)[2]

\* the highest-priority bucket of a non-empty set: emergency > urgent > routine
Highest(buckets) ==
  IF "emergency" \in buckets THEN "emergency"
  ELSE IF "urgent" \in buckets THEN "urgent"
  ELSE "routine"

Rank(urgency) ==
  CASE urgency = "emergency" -> 3
    [] urgency = "urgent" -> 2
    [] urgency = "routine" -> 1
    [] OTHER -> 0

\* C1: after any non-empty sequence of handleSymptomCheck calls since the last
\* reset, assessment.urgency is the highest-priority bucket among the buckets
\* passed, whatever the order of the calls.
C1_UrgencyIsHighestBucket ==
  hBuckets # {} => assessment.urgency = Highest(hBuckets)

\* an urgent symptom then a routine one: the urgency stayed urgent
C1_Witness ==
  /\ assessment.symptoms = <<"Persistent vomiting", "Minor scratching">>
  /\ hBuckets = {"urgent", "routine"}
  /\ assessment.urgency = "urgent"

C3_FirstSelectionGoesToLocalResult ==
  (/\ hLast = [op |-> "handleSymptomCheck", from |-> 1]
   /\ isOpen
   /\ Len(assessment.symptoms) = 1)
  => (/\ currentStep = 2
      /\ assessment.urgency = BucketOf(assessment.symptoms[1])
      /\ ShownRecommendation = getRecommendation(BucketOf(assessment.symptoms[1]))
      /\ ShownRecommendation # JNull)

\* "Seizures or convulsions" as the only symptom, picked at step 1
C3_Witness ==
  /\ hLast = [op |-> "handleSymptomCheck", from |-> 1]
  /\ isOpen
  /\ assessment.symptoms = <<"Seizures or convulsions">>
  /\ ShownRecommendation.action = "Call Emergency Vet Now"

SessionDataCleared ==
  /\ selectedSymptoms = <<>>
  /\ assessment = [symptoms |-> <<>>, urgency |-> NoUrgency]
  /\ duration = ""
  /\ severity = ""
  /\ currentBehavior = ""
  /\ vitalSigns = EmptyVitalSigns

\* C4 as claimed: Start over from LocalResult clears the session data and
\* leaves the session at step 1.
C4_ResetReturnsToPicker ==
  hLast = [op |-> "resetAssessment", from |-> 2]
    => (SessionDataCleared /\ currentStep = 1)

\* C4 as amended: Start over from LocalResult clears the selected symptoms, the
\* urgency and the free-text and vital-sign fields, and leaves the session at
\* step 0 (Intro).
C4_ResetReturnsToIntro ==
  hLast = [op |-> "resetAssessment", from |-> 2]
    => (SessionDataCleared /\ currentStep = 0)

C4_Witness ==
  /\ hLast = [op |-> "resetAssessment", from |-> 2]
  /\ isOpen

\* what a session that was never used looks like once opened
FreshlyOpened ==
  /\ isOpen
  /\ currentStep = 0
  /\ SessionDataCleared
  /\ selectedDogId = ""
  /\ aiAssessment = JNull

\* C5: after a close followed by startAssessment the session equals one that
\* was never used.
C5_CloseDiscardsSession ==
  [][(hLast.op = "closeDialog" /\ hLast'.op = "startAssessment") => FreshlyOpened']_vars

----------------------------------------------------------------------------
(* Properties of the AI request *)

\* C6: a symptom or photo analysis that arrives after the form's analyses were
\* cleared or the form was closed changes neither aiAnalysis nor photoAnalyses.
C6_StaleAnalysisIgnored ==
  [][(hFormLast'.op \in {"symptomAnalysisSettled", "photoFetchSettled"} /\ hFormLast'.stale)
       => (aiAnalysis' = aiAnalysis /\ photoAnalyses' = photoAnalyses)]_vars

\* C6, emergency assessment: a response that arrives after the session was
\* reset or closed changes neither the stored AI result nor the step.
C6_StaleAssessmentIgnored ==
  [][(hLast'.op = "emergencyAssessmentSettled" /\ hLast'.stale)
       => (aiAssessment' = aiAssessment /\ currentStep' = currentStep)]_vars

\* EmergencyAssessment objects the server can compute
ServerAssessments == {AssessEmergency, AssessNonUrgent}

\* C7: when the request succeeds, aiAssessment is the EmergencyAssessment the
\* server computed and the step is 3.
C7_SuccessStoresServerAssessment ==
  (hLast.op = "emergencyAssessmentSettled" /\ hLast.failure = "")
    => (aiAssessment \in ServerAssessments /\ currentStep = 3)

\* C8: a request that fails (network error, non-2xx status, unreadable body)
\* leaves the step, the selected symptoms, the local urgency and the stored AI
\* result as they were, keeps the local recommendation shown, and says so.
C8_FailureLeavesSession ==
  [][(hLast'.op = "emergencyAssessmentSettled" /\ hLast'.failure # "")
       => (/\ currentStep' = currentStep
           /\ selectedSymptoms' = selectedSymptoms
           /\ assessment' = assessment
           /\ aiAssessment' = aiAssessment
           /\ ShownRecommendation' = ShownRecommendation
           /\ toastTitle' = "Assessment Failed")]_vars

\* a request failed while the local result of an urgent symptom was shown
C8_Witness ==
  /\ hLast.op = "emergencyAssessmentSettled"
  /\ hLast.failure = "non-2xx status"
  /\ ~hLast.stale
  /\ currentStep = 2
  /\ assessment.urgency = "urgent"
  /\ ShownRecommendation = getRecommendation(assessment.urgency)
  /\ aiAssessment = JNull

\* requests in flight that the current session sent
InFlight == {i \in 1..Len(pending) : ~pending[i].stale}

\* C9: a session never has two requests in flight.
C9_OneRequestInFlight == Cardinality(InFlight) <= 1

\* C10: performAIAssessment without a dog or without symptoms sends nothing,
\* shows 'Missing Information' and changes no session state.
C10_ValidationSendsNothing ==
  [][(hLast'.op = "performAIAssessment" /\ (selectedDogId = "" \/ selectedSymptoms = <<>>))
       => (/\ pending' = pending
           /\ toastTitle' = "Missing Information"
           /\ currentStep' = currentStep
           /\ aiAssessment' = aiAssessment
           /\ isAnalyzing' = isAnalyzing
           /\ selectedSymptoms' = selectedSymptoms
           /\ assessment' = assessment)]_vars

\* rejected with symptoms selected but no dog
C10_Witness ==
  /\ hLast.op = "performAIAssessment"
  /\ toastTitle = "Missing Information"
  /\ selectedDogId = ""
  /\ selectedSymptoms # <<>>
  /\ pending = <<>>

----------------------------------------------------------------------------
(* Properties of the session's steps and of the symptom list *)

\* C11: the session enters step 3 only from the picker (1) or the local
\* result (2), only when a request succeeded, and only with a dog selected and
\* a non-empty selectedSymptoms; never from the intro (0) and never in a
\* session whose symptoms were cleared.
C11_AIResultOnlyFromSelection ==
  [][(currentStep' = 3 /\ currentStep # 3)
       => (/\ currentStep \in {1, 2}
           /\ hLast'.op = "emergencyAssessmentSettled"
           /\ hLast'.failure = ""
           /\ selectedDogId # ""
           /\ selectedSymptoms # <<>>)]_vars

\* two elements of the list at different positions are different
NoDuplicates(list) ==
  \A i \in 1..Len(list) : \A j \in 1..Len(list) : i # j => list[i] # list[j]

\* C12: after any sequence of handleSymptomCheck, toggleSymptom,
\* startAssessment, resetAssessment and close, selectedSymptoms holds no
\* symptom twice.
C12_NoSymptomTwice == NoDuplicates(selectedSymptoms)

----------------------------------------------------------------------------
(* Properties of the photo batch *)

\* C17: in a photo batch, a failure while analysing one image (HTTP error
\* status, network error, unreadable body) neither stops the remaining images
\* from being submitted nor discards the analyses of the images that succeeded.
C17_PhotoFailureDoesNotAbortBatch ==
  [][(hFormLast'.op = "photoFetchSettled" /\ hFormLast'.failure # "")
       => IF hFormLast'.remaining > 0
          THEN /\ Len(photoRuns') = Len(photoRuns)
               /\ \E r \in 1..Len(photoRuns') : photoRuns'[r].analyses = hFormLast'.collected
          ELSE photoAnalyses' = hFormLast'.collected]_vars

\* what analyzePhotos gives its caller when a batch ends: the stored analyses
\* and the toast, whose text carries the number of analyses
PhotoBatchReport ==
  IF formToast = "Photo Analysis Complete"
  THEN [analyses |-> photoAnalyses, toast |-> formToast, analyzed |-> Len(photoAnalyses)]
  ELSE [analyses |-> photoAnalyses, toast |-> formToast]

\* C18: after a batch in which k images succeed and m fail, the aggregate
\* holds exactly k analyses and reports that m images failed and which ones.
C18_BatchReportsFailures ==
  (hFormLast.op = "photoFetchSettled" /\ hFormLast.remaining = 0 /\ hFormLast.failed # {})
    => (/\ Len(PhotoBatchReport.analyses) = hFormLast.total - Cardinality(hFormLast.failed)
        /\ "failed" \in DOMAIN PhotoBatchReport
        /\ PhotoBatchReport.failed = hFormLast.failed)

----------------------------------------------------------------------------
(* Properties of the /api/ai routes *)

\* the output shapes requested from the generative model (responseSchema)
IsSymptomAnalysis(v) ==
  /\ {"severity", "urgency", "insights", "recommendations", "vetRequired"} \subseteq DOMAIN v
  /\ v.severity \in {"mild", "moderate", "severe"}
  /\ v.urgency \in {"non-urgent", "same-day", "emergency"}

IsPhotoAnalysis(v) ==
  /\ {"findings", "concerns", "recommendations", "urgencyLevel", "suggestedActions"}
       \subseteq DOMAIN v
  /\ v.urgencyLevel \in {"low", "medium", "high"}

IsEmergencyAssessment(v) ==
  /\ {"urgencyLevel", "timeFrame", "reasoning", "immediateActions", "redFlags", "vetRequired"}
       \subseteq DOMAIN v
  /\ v.urgencyLevel \in {"non-urgent", "urgent", "emergency"}

\* every field of an analysis of any kind
AnalysisFields ==
  {"severity", "urgency", "insights", "recommendations", "vetRequired", "emergencyWarning",
   "findings", "concerns", "urgencyLevel", "suggestedActions",
   "timeFrame", "reasoning", "immediateActions", "redFlags"}

AIRoutes == {"analyze-symptoms", "analyze-photo", "emergency-assessment"}

\* the last request was an AI request
AIRequestHandled == srvRequest # JNull /\ srvRequest.route \in AIRoutes

\* the last request reached the generative model
ModelWasCalled == \E i \in 1..Len(srvCalls) : srvCalls[i].to = "model"

\* the data the last request gave the generative model
ModelInput == (CHOOSE c \in Range(srvCalls) : c.to = "model").input

\* C13: a result of analyzeSymptoms, analyzeHealthPhoto or
\* performEmergencyAssessment that reaches the caller has the requested shape:
\* a well-formed answer with a field missing or an enum value outside its set
\* is rejected as a failure.
C13_ResultHasRequestedShape ==
  (AIRequestHandled /\ ModelWasCalled /\ srvResponse.status = 200)
    => CASE srvRequest.route = "analyze-symptoms" -> IsSymptomAnalysis(srvResponse.body)
         [] srvRequest.route = "analyze-photo" -> IsPhotoAnalysis(srvResponse.body)
         [] OTHER -> IsEmergencyAssessment(srvResponse.body)

\* C14: when the model call throws or answers with an empty, blank or
\* unparseable body, the route answers with an error status and a body that
\* holds an error and no field of an analysis.
C14_ModelFailureGivesErrorOnly ==
  (AIRequestHandled /\ ModelWasCalled /\ srvRequest.outcome \in ModelFailures)
    => (/\ srvResponse.status \in 400..599
        /\ "error" \in DOMAIN srvResponse.body
        /\ DOMAIN srvResponse.body \cap AnalysisFields = {})

\* each kind of model failure, on the emergency-assessment route
C14_Witness ==
  /\ AIRequestHandled
  /\ srvRequest.route = "emergency-assessment"
  /\ ModelWasCalled
  /\ srvRequest.outcome = "   "
  /\ srvResponse = [status |-> 500, body |-> [error |-> "Failed to perform emergency assessment"]]

\* the last request lacks a required input
InvalidRequest ==
  /\ AIRequestHandled
  /\ LET b == srvRequest.body IN
     \/ /\ srvRequest.route \in {"analyze-symptoms", "emergency-assessment"}
        /\ ("dogId" \notin DOMAIN b \/ b.dogId = "")
     \/ /\ srvRequest.route = "emergency-assessment"
        /\ \/ "assessmentData" \notin DOMAIN b
           \/ "symptoms" \notin DOMAIN b.assessmentData
           \/ b.assessmentData.symptoms = <<>>
     \/ /\ srvRequest.route = "analyze-symptoms"
        /\ \/ "symptomData" \notin DOMAIN b
           \/ b.symptomData.type = ""
           \/ b.symptomData.title = ""

\* C15: a request without dogId, without symptoms (emergency assessment) or
\* with an empty type or title (symptom analysis) is answered with a validation
\* error, and neither storage nor the model is contacted.
C15_InvalidRequestContactsNothing ==
  InvalidRequest => (srvResponse.status = 400 /\ srvCalls = <<>>)

\* the last request names a dog that storage does not hold, and has its payload
UnknownDogRequest ==
  /\ AIRequestHandled
  /\ srvRequest.route \in {"analyze-symptoms", "emergency-assessment"}
  /\ LET b == srvRequest.body IN
     /\ "dogId" \in DOMAIN b
     /\ b.dogId # ""
     /\ b.dogId \notin DOMAIN dogs
     /\ ("symptomData" \in DOMAIN b \/ "assessmentData" \in DOMAIN b)

Count(list, x) == Cardinality({i \in 1..Len(list) : list[i] = x})

CalendarAge(birth, today) ==
  (today.y - birth.y)
    - (IF today.m < birth.m \/ (today.m = birth.m /\ today.d < birth.d) THEN 1 ELSE 0)

\* C20: the age sent to the model is the number of whole calendar years between
\* birthDate and the current date, truncated.
C20_AgeIsWholeCalendarYears ==
  (/\ AIRequestHandled
   /\ srvRequest.route \in {"analyze-symptoms", "emergency-assessment"}
   /\ ModelWasCalled
   /\ dogs[srvRequest.body.dogId].birthDate # JNull)
    => LET age == IF srvRequest.route = "emergency-assessment"
                  THEN ModelInput.dogInfo.age ELSE ModelInput.age
       IN age = CalendarAge(dogs[srvRequest.body.dogId].birthDate, now)

----------------------------------------------------------------------------
(* Properties of the descriptor table, of the rule and of the two symptom lists *)

\* the descriptors of two urgencies differ in title and in style
DescriptorsDiffer(u, v) ==
  /\ getRecommendation(u).title # getRecommendation(v).title
  /\ getRecommendation(u).color # getRecommendation(v).color
  /\ getRecommendation(u).bgColor # getRecommendation(v).bgColor

\* C22 as claimed: getRecommendation is defined for the three urgencies, gives
\* the same descriptor for the same urgency, has pairwise different titles and
\* styles, and its actions are 'Call emergency vet now', 'Schedule vet visit'
\* and 'Schedule routine visit'.
C22_DescriptorTableAsWritten ==
  [][/\ assessment'.urgency = assessment.urgency => recommendation' = recommendation
     /\ assessment'.urgency \in Urgencies =>
          /\ recommendation' # JNull
          /\ \A v \in Urgencies \ {assessment'.urgency} :
               DescriptorsDiffer(assessment'.urgency, v)
          /\ recommendation'.action =
               CASE assessment'.urgency = "emergency" -> "Call emergency vet now"
                 [] assessment'.urgency = "urgent" -> "Schedule vet visit"
                 [] OTHER -> "Schedule routine visit"]_vars

\* C22 as amended: the same, the actions being 'Call Emergency Vet Now',
\* 'Schedule Vet Visit' and 'Schedule Routine Visit'.
C22_DescriptorTable ==
  [][/\ assessment'.urgency = assessment.urgency => recommendation' = recommendation
     /\ assessment'.urgency \in Urgencies =>
          /\ recommendation' # JNull
          /\ \A v \in Urgencies \ {assessment'.urgency} :
               DescriptorsDiffer(assessment'.urgency, v)
          /\ recommendation'.action =
               CASE assessment'.urgency = "emergency" -> "Call Emergency Vet Now"
                 [] assessment'.urgency = "urgent" -> "Schedule Vet Visit"
                 [] OTHER -> "Schedule Routine Visit"]_vars

\* the descriptor of an urgent session
C22_Witness ==
  /\ assessment.urgency = "urgent"
  /\ recommendation.action = "Schedule Vet Visit"
  /\ recommendation.title = "Urgent Veterinary Care"

\* C23: the urgency rule is idempotent: applied twice with the same bucket it
\* gives what it gives applied once, for every current urgency and bucket.
C23_RuleIsIdempotent ==
  \A b \in Urgencies :
    NextUrgency(NextUrgency(assessment.urgency, b), b) = NextUrgency(assessment.urgency, b)

\* the same urgent symptom selected twice in a row
C23_Witness ==
  /\ hLast.op = "handleSymptomCheck"
  /\ assessment.symptoms = <<"Persistent vomiting", "Persistent vomiting">>
  /\ assessment.urgency = "urgent"

\* C26: selectedSymptoms, the list performAIAssessment sends, and
\* assessment.symptoms, the list of the local result, hold the same elements.
C26_ListsHoldSameSymptoms ==
  Range(selectedSymptoms) = Range(assessment.symptoms)

\* C27: through the dialog's controls assessment.symptoms never holds more
\* than one symptom.
C27_LocalResultOfOneSymptom == Len(assessment.symptoms) <= 1

\* a second session: the local result holds the one symptom picked in it
C27_Witness ==
  /\ hLast = [op |-> "handleSymptomCheck", from |-> 1]
  /\ currentStep = 2
  /\ Len(selectedSymptoms) = 2
  /\ assessment.symptoms = <<"Minor scratching">>

\* C28, emergency assessment: isAnalyzing is true exactly while a request of
\* the session is in flight.
C28_FlagWhileInFlight == isAnalyzing <=> Len(pending) > 0

\* ---------------------------------------------------------------------
\* The selected photos
\* ---------------------------------------------------------------------

FilesWithinLimits ==
  /\ Len(selectedFiles) <= 5
  /\ \A i \in 1..Len(selectedFiles) :
       /\ IsImageType(selectedFiles[i].type)
       /\ selectedFiles[i].size <= 5 * 1024 * 1024

\* C30: after every handleFileSelect and removeFile, selectedFiles holds at
\* most 5 files, each of an image type and of at most 5 MB, and a selection
\* whose accepted files would bring the total above 5 leaves selectedFiles
\* unchanged.
C30_SelectedFilesWithinLimits ==
  [][/\ FilesWithinLimits'
     /\ (hFormLast'.op = "handleFileSelect"
          /\ Len(selectedFiles) + Len(AcceptedFiles(hFormLast'.files)) > 5)
         => selectedFiles' = selectedFiles]_vars

C30_Witness ==
  /\ hFormLast = [op |-> "handleFileSelect", files |-> <<SidePhoto, Photo, SidePhoto>>]
  /\ formToast = "Too Many Files"
  /\ Len(selectedFiles) = 4
  /\ \E i \in 1..4 : selectedFiles[i] = LimitPhoto

\* ---------------------------------------------------------------------
\* Storage, ownership and deletion
\* ---------------------------------------------------------------------

AllAIRoutes == AIRoutes \cup {"generate-health-summary"}

\* C21: handling an AI request (analyze-symptoms, analyze-photo,
\* emergency-assessment, generate-health-summary) leaves the tables as they
\* were, and the only storage calls it makes are the reads of the dog and of
\* its health records, whether the request succeeds or fails.
C21_AIRequestWritesNothing ==
  [][srvRequest'.route \in AllAIRoutes
       => /\ dogs' = dogs
          /\ healthRecords' = healthRecords
          /\ \A i \in 1..Len(srvCalls') :
               srvCalls'[i].to = "storage"
                 => srvCalls'[i].fn \in {"getDog", "getDogHealthRecords"}]_vars

C21_Witness ==
  /\ srvRequest # JNull
  /\ srvRequest.route = "generate-health-summary"
  /\ srvResponse.status = 500
  /\ Len(srvCalls) = 3
  /\ Len(healthRecords) = 3
  /\ ~dogs["dog-2"].isActive

DogScopedRoutes ==
  {"health-records", "get-health-records", "delete-dog", "analyze-symptoms",
   "emergency-assessment", "generate-health-summary"}

\* C24: a dog-scoped request (reading or creating health records, deleting
\* a dog, asking for a symptom analysis, an emergency assessment or a health
\* summary) that names a stored dog is answered with success only when the
\* dog belongs to the user who makes it.
C24_OnlyOwnDogs ==
  (/\ srvRequest # JNull
   /\ srvRequest.route \in DogScopedRoutes
   /\ DogIdOf(srvRequest.body) \in DOMAIN dogs
   /\ srvResponse.status = 200)
    => dogs[DogIdOf(srvRequest.body)].userId = srvRequest.user

\* a deleted dog: its row is kept, inactive, and its owner's list omits it
DeletedDogKept(d) ==
  /\ d \in DOMAIN dogs
  /\ getDog(d) # JUndefined
  /\ ~dogs[d].isActive
  /\ d \notin getUserDogs(dogs[d].userId)

\* a request that a well-behaved model lets succeed
AnswerableRequest(request) ==
  \/ request.route = "get-health-records"
  \/ request.route \in {"analyze-symptoms", "emergency-assessment", "generate-health-summary"}
       /\ request.outcome # ModelThrows

\* C29: deleteDog(id) takes the dog out of getUserDogs for its owner and
\* keeps its row (but for isActive) and every health record; later record
\* reads and AI requests for a deleted dog are answered 200, the reads with
\* the records of that dog.
C29_DeletedDogStillServed ==
  [][\A d \in DOMAIN dogs :
       /\ (srvRequest'.route = "delete-dog" /\ DogIdOf(srvRequest'.body) = d)
            => /\ DeletedDogKept(d)'
               /\ dogs' = [dogs EXCEPT ![d].isActive = FALSE]
               /\ healthRecords' = healthRecords
       /\ (/\ ~dogs[d].isActive
           /\ AnswerableRequest(srvRequest')
           /\ DogIdOf(srvRequest'.body) = d)
            => /\ DeletedDogKept(d)'
               /\ srvResponse'.status = 200
               /\ srvRequest'.route = "get-health-records"
                    => srvResponse'.body \in getDogHealthRecords(d)]_vars

C29_Witness ==
  /\ srvRequest # JNull
  /\ srvRequest.route = "emergency-assessment"
  /\ srvRequest.body.dogId = "dog-1"
  /\ DeletedDogKept("dog-1")
  /\ getUserDogs("user-1") = {}
  /\ srvResponse.status = 200
  /\ srvCalls[3].input.dogInfo.medicalHistory = <<"symptom: Vomiting">>

\* ---------------------------------------------------------------------
\* The subscription of a user
\* ---------------------------------------------------------------------

\* the Stripe customers created for a user, and their subscriptions
CustomersOf(user) ==
  {i \in 1..Len(stripeCustomers) : stripeCustomers[i].email = Email(user)}
SubscriptionsOf(user) ==
  {j \in 1..Len(stripeSubscriptions) :
     \E i \in CustomersOf(user) : stripeSubscriptions[j].customer = stripeCustomers[i].id}

\* C25: whatever calls a user makes to POST /api/get-or-create-subscription,
\* one after another or overlapping, Stripe holds at most one customer and
\* at most one subscription for that user.
C25_OneSubscriptionPerUser ==
  \A user \in Users :
    /\ Cardinality(CustomersOf(user)) <= 1
    /\ Cardinality(SubscriptionsOf(user)) <= 1

====
